---- MODULE Spec2Model ----
(***************************************************************************)
(* Model of git-mcp (src/main.go, src/tool.go): an MCP server exposing     *)
(* four read-only git tools (git-log, git-changed-files, git-file-diff,    *)
(* git-file-history) over the repository named by the process environment. *)
(*                                                                         *)
(* The repository is a commit graph: commit ids are 1..Len(parents), HEAD  *)
(* names the newest commit, parents[c] is the ordered parent list of c and *)
(* tree[c] maps every path to a blob id (0 = path absent).  Blobs are      *)
(* opaque one-chunk contents: two different blob ids share no line.        *)
(* The go-git calls the handlers make (PlainOpen, Head, CommitObject,      *)
(* Parent, Log, Tree, Patch) are modelled at their call sites.             *)
(***************************************************************************)
EXTENDS Integers, Sequences, FiniteSets

\* ---- bounds of the model ----
MaxCommits == 3        \* commits of a repository with arbitrary trees
MaxGraphCommits == 4   \* commits of a repository with arbitrary parent lists
MaxChain == 12         \* commits of a linear history
MaxFaultCommits == 3   \* commits of a repository with one unreadable object
MaxBlob == 2           \* distinct file contents

\* ---- program constants ----
DefaultLimit == 10
DefaultCommitsBack == 10

Paths == {"a", "b"}
PathSeq == <<"a", "b">>            \* the paths in lexicographic order
NoPath == "zz"                     \* a path no tree ever holds
RepoDir == "/repo"                 \* the one directory that holds a repository
Dirs == {"", "/repo", "/other"}    \* values an environment variable may have

VARIABLES pc, env, workdir, parents, tree, headOk, missing, badTree, badBlob, res

vars == <<pc, env, workdir, parents, tree, headOk, missing, badTree, badBlob, res>>

Commits == 1..Len(parents)
HeadCommit == Len(parents)
Trees == [Paths -> 0..MaxBlob]
EmptyTree == [p \in Paths |-> 0]

BlobAt(t, p) == IF p \in Paths THEN t[p] ELSE 0

Min(x, y) == IF x < y THEN x ELSE y

\* F applied to the value of v, with v evaluated once
Bind(v, F(_)) == CHOOSE r \in {F(x) : x \in {v}} : TRUE

\* ---- reads of the object store: what an invocation touched ----
Read(kind, id) == [kind |-> kind, id |-> id]

\* ---- getRepository ----
getRepositoryDir(e) ==
    IF e.CLIENT_WORKDIR = "" THEN e.WORKDIR ELSE e.CLIENT_WORKDIR

PlainOpen(dir) == dir = RepoDir

\* ---- argument helpers ----
NoArg == [present |-> FALSE, val |-> 0]
Arg(v) == [present |-> TRUE, val |-> v]

getNumber(a) == IF a.present THEN a.val ELSE 0

getString(s) == s

\* ---- getCommitFromHead ----
\* a walk that follows the LAST parent of a merge instead of parent index 0
RECURSIVE WalkBackLastParent(_, _, _, _)
WalkBackLastParent(c, i, n, reads) ==
    IF i >= n THEN [ok |-> TRUE, commit |-> c, err |-> "", reads |-> reads]
    ELSE IF Len(parents[c]) = 0
         THEN [ok |-> FALSE, commit |-> 0, err |-> "reached root commit", reads |-> reads]
    ELSE LET p == parents[c][Len(parents[c])]
             rd == Append(reads, Read("commit", p))
         IN IF p \in missing
            THEN [ok |-> FALSE, commit |-> 0, err |-> "error walking commit history", reads |-> rd]
            ELSE WalkBackLastParent(p, i + 1, n, rd)

RECURSIVE WalkBack(_, _, _, _)
WalkBack(c, i, n, reads) ==
    IF i >= n THEN [ok |-> TRUE, commit |-> c, err |-> "", reads |-> reads]
    ELSE IF Len(parents[c]) = 0
         THEN [ok |-> FALSE, commit |-> 0, err |-> "reached root commit", reads |-> reads]
    ELSE LET p == parents[c][1]
             rd == Append(reads, Read("commit", p))
         IN IF p \in missing
            THEN [ok |-> FALSE, commit |-> 0, err |-> "error walking commit history", reads |-> rd]
            ELSE WalkBack(p, i + 1, n, rd)

getCommitFromHead(commitsBack) ==
    IF ~headOk
    THEN [ok |-> FALSE, commit |-> 0, err |-> "error getting HEAD",
          reads |-> <<Read("ref", 0)>>]
    ELSE IF HeadCommit \in missing
    THEN [ok |-> FALSE, commit |-> 0, err |-> "error getting HEAD commit",
          reads |-> <<Read("ref", 0), Read("commit", HeadCommit)>>]
    ELSE WalkBack(HeadCommit, 0, commitsBack,
                  <<Read("ref", 0), Read("commit", HeadCommit)>>)

\* ---- r.Log(&git.LogOptions{From: h}): go-git's default order, a pre-order
\* ---- walk over ALL parents that skips commits already seen ----
FilterSeen(ps, seen) == SelectSeq(ps, LAMBDA h : h \notin seen)

RECURSIVE PreorderNext(_, _, _, _, _)
PreorderNext(stack, seen, out, reads, marks) ==
    IF stack = <<>> THEN [seq |-> out, err |-> FALSE, reads |-> reads, marks |-> marks]
    ELSE LET top == stack[Len(stack)]
             below == SubSeq(stack, 1, Len(stack) - 1)
         IN IF top = <<>> THEN PreorderNext(below, seen, out, reads, marks)
            ELSE LET h == Head(top)
                     rest == Append(below, Tail(top))
                     rd == Append(reads, Read("commit", h))
                 IN IF h \in missing
                    THEN [seq |-> out, err |-> TRUE, reads |-> rd, marks |-> marks]
                    ELSE IF h \in seen THEN PreorderNext(rest, seen, out, rd, marks)
                    ELSE LET seen2 == seen \cup {h}
                             stack2 == IF Len(parents[h]) > 0
                                       THEN Append(rest, FilterSeen(parents[h], seen2))
                                       ELSE rest
                         IN PreorderNext(stack2, seen2, Append(out, h), rd,
                                         Append(marks, Len(rd)))

\* The whole walk from h: seq = the commits in the order the iterator yields
\* them, err = the walk ends in a failed object read, reads = the object reads
\* in order, marks[k] = the number of reads made when the k-th commit is
\* yielded (the first commit is handed to the iterator already loaded).
LogWalk(h) ==
    PreorderNext(IF Len(parents[h]) > 0 THEN <<FilterSeen(parents[h], {h})>> ELSE <<>>,
                 {h}, <<h>>, <<>>, <<0>>)

\* the reads of the k-th call of Next (k = Len(seq) + 1: the call that ends the walk)
NextReads(walk, k) ==
    LET lo == IF k <= 1 THEN 0 ELSE walk.marks[k - 1]
        hi == IF k <= Len(walk.seq) THEN walk.marks[k] ELSE Len(walk.reads)
    IN SubSeq(walk.reads, lo + 1, hi)

\* ---- oldTree.Patch(newTree) ----
\* go-git diffs the two trees with DefaultDiffTreeOptions (DetectRenames on):
\* a deleted path and an added path holding the same blob become ONE file
\* patch whose from and to are both set.  "" stands for a nil file.
Deleted(oldT, newT) == {p \in Paths : oldT[p] # 0 /\ newT[p] = 0}
Added(oldT, newT) == {p \in Paths : oldT[p] = 0 /\ newT[p] # 0}

RECURSIVE RenamePairs(_, _, _, _)
RenamePairs(i, used, oldT, newT) ==
    IF i > Len(PathSeq) THEN {}
    ELSE LET d == PathSeq[i]
             cands == {a \in Added(oldT, newT) \ used : newT[a] = oldT[d]}
         IN IF d \in Deleted(oldT, newT) /\ cands # {}
            THEN LET a == PathSeq[CHOOSE j \in 1..Len(PathSeq) :
                                    /\ PathSeq[j] \in cands
                                    /\ \A m \in 1..(j - 1) : PathSeq[m] \notin cands]
                 IN {<<d, a>>} \cup RenamePairs(i + 1, used \cup {a}, oldT, newT)
            ELSE RenamePairs(i + 1, used, oldT, newT)

FilePatch(from, to, fromBlob, toBlob) ==
    [from |-> from, to |-> to, fromBlob |-> fromBlob, toBlob |-> toBlob]

RECURSIVE FilePatchesFrom(_, _, _, _)
FilePatchesFrom(i, pairs, oldT, newT) ==
    IF i > Len(PathSeq) THEN <<>>
    ELSE LET p == PathSeq[i]
             later == FilePatchesFrom(i + 1, pairs, oldT, newT)
         IN IF \E pr \in pairs : pr[2] = p
            THEN LET d == (CHOOSE pr \in pairs : pr[2] = p)[1]
                 IN <<FilePatch(d, p, oldT[d], newT[p])>> \o later
            ELSE IF \E pr \in pairs : pr[1] = p THEN later
            ELSE IF oldT[p] = newT[p] THEN later
            ELSE <<FilePatch(IF oldT[p] # 0 THEN p ELSE "",
                             IF newT[p] # 0 THEN p ELSE "",
                             oldT[p], newT[p])>> \o later

\* the file patches in path order, renames paired
FilePatches(oldT, newT) ==
    Bind(RenamePairs(1, {}, oldT, newT), LAMBDA pairs : FilePatchesFrom(1, pairs, oldT, newT))

RECURSIVE BlobReads(_)
BlobReads(fps) ==
    IF fps = <<>> THEN <<>>
    ELSE LET fp == Head(fps)
         IN (IF fp.fromBlob # 0 THEN <<Read("blob", fp.fromBlob)>> ELSE <<>>)
            \o (IF fp.toBlob # 0 THEN <<Read("blob", fp.toBlob)>> ELSE <<>>)
            \o BlobReads(Tail(fps))

\* the reads up to and including the first unreadable blob
RECURSIVE UpToBad(_)
UpToBad(rs) ==
    IF rs = <<>> THEN <<>>
    ELSE IF Head(rs).id \in badBlob THEN <<Head(rs)>>
    ELSE <<Head(rs)>> \o UpToBad(Tail(rs))

PatchOf(fps, rds) ==
    LET bad == \E i \in 1..Len(rds) : rds[i].id \in badBlob
    IN [ok |-> ~bad, filePatches |-> IF bad THEN <<>> ELSE fps, reads |-> UpToBad(rds)]

Patch(oldT, newT) ==
    Bind(FilePatches(oldT, newT), LAMBDA fps : Bind(BlobReads(fps), LAMBDA rds : PatchOf(fps, rds)))

\* filePatch.Chunks(): the line diff of the two blobs
Chunk(op, blob) == [op |-> op, blob |-> blob]

Chunks(fp) ==
    IF fp.fromBlob = 0 THEN <<Chunk("+", fp.toBlob)>>
    ELSE IF fp.toBlob = 0 THEN <<Chunk("-", fp.fromBlob)>>
    ELSE IF fp.fromBlob = fp.toBlob THEN <<Chunk(" ", fp.toBlob)>>
    ELSE <<Chunk("-", fp.fromBlob), Chunk("+", fp.toBlob)>>

\* the first file patch that names filePath on either side (the loop's break)
Matches(fp, filePath) == fp.from = filePath \/ fp.to = filePath

FirstMatch(fps, filePath) ==
    LET idx == {i \in 1..Len(fps) : Matches(fps[i], filePath)}
    IN IF idx = {} THEN <<>>
       ELSE <<fps[CHOOSE i \in idx : \A j \in idx : i <= j]>>

\* ---- tool results (mcp.CallToolResult) ----
\* dir = the directory handed to git.PlainOpen ("none" when the handler
\* returned before opening), data = the payload, reads = the object reads made
Result(tool, num, path, dir, isError, msg, data, reads) ==
    [tool |-> tool, num |-> num, path |-> path, dir |-> dir, isError |-> isError,
     msg |-> msg, data |-> data, reads |-> reads]

NoResult == Result("none", NoArg, "", "none", FALSE, "", <<>>, <<>>)

OpenRead == <<Read("dir", 0)>>
HeadRead == <<Read("dir", 0), Read("ref", 0)>>

\* ---- git-log ----
GitCommit(c) == [Hash |-> c]

\* commitIter.ForEach with the counting callback: cb(order[i]) for i = 1, 2, ...
\* stopped = the callback returned "reached limit" at commit number at
\* a callback that compares with count > limit and so collects one commit more
RECURSIVE ForEachLogOffByOne(_, _, _, _, _)
ForEachLogOffByOne(order, i, count, commits, limit) ==
    IF i > Len(order) THEN [commits |-> commits, stopped |-> FALSE, at |-> i]
    ELSE IF count > limit THEN [commits |-> commits, stopped |-> TRUE, at |-> i]
    ELSE ForEachLogOffByOne(order, i + 1, count + 1,
                            Append(commits, [Hash |-> order[i]]), limit)

RECURSIVE ForEachLog(_, _, _, _, _)
ForEachLog(order, i, count, commits, limit) ==
    IF i > Len(order) THEN [commits |-> commits, stopped |-> FALSE, at |-> i]
    ELSE IF count >= limit THEN [commits |-> commits, stopped |-> TRUE, at |-> i]
    ELSE ForEachLog(order, i + 1, count + 1, Append(commits, GitCommit(order[i])), limit)

LimitOf(a) == IF a.present THEN a.val ELSE DefaultLimit

\* the result once the walk and the callback loop over it are known
gitLogOf(a, dir, walk, fe) ==
    LET base == Append(HeadRead, Read("commit", HeadCommit))
        R(isError, msg, data, reads) == Result("git-log", a, "", dir, isError, msg, data, reads)
    IN IF fe.stopped
       THEN R(FALSE, "Git History", fe.commits,
              base \o SubSeq(walk.reads, 1, walk.marks[fe.at]))
       ELSE IF walk.err
       THEN R(TRUE, "Error iterating commits", <<>>, base \o walk.reads)
       ELSE R(FALSE, "Git History", fe.commits, base \o walk.reads)

gitLog(a) ==
    LET limit == LimitOf(a)
        dir == getRepositoryDir(env)
        R(isError, msg, data, reads) == Result("git-log", a, "", dir, isError, msg, data, reads)
    IN IF ~PlainOpen(dir) THEN R(TRUE, "Error opening repository", <<>>, OpenRead)
       ELSE IF ~headOk THEN R(TRUE, "Error getting HEAD reference", <<>>, HeadRead)
       ELSE IF HeadCommit \in missing
            THEN R(TRUE, "Error getting commit history", <<>>,
                   Append(HeadRead, Read("commit", HeadCommit)))
       ELSE Bind(LogWalk(HeadCommit), LAMBDA walk :
                Bind(ForEachLog(walk.seq, 1, 0, <<>>, limit), LAMBDA fe :
                    gitLogOf(a, dir, walk, fe)))

\* ---- git-changed-files and git-file-diff: repository, HEAD, the old commit,
\* ---- the two trees and the patch between them ----
CommitsBackOf(a) ==
    LET commitsBack == getNumber(a)
    IN IF commitsBack = 0 THEN DefaultCommitsBack ELSE commitsBack

\* err = "" when every step succeeded
\* the steps after getCommitFromHead returned old
patchFrom(old) ==
    LET E(msg, reads) == [err |-> msg, filePatches |-> <<>>, reads |-> reads]
        r1 == HeadRead \o old.reads
        r2 == Append(r1, Read("commit", HeadCommit))
        r3 == r2 \o <<Read("tree", old.commit), Read("tree", HeadCommit)>>
    IN IF ~old.ok
       THEN E(IF old.err = "reached root commit"
              THEN "Error getting old commit: reached root commit"
              ELSE "Error getting old commit", r1)
       ELSE IF HeadCommit \in missing THEN E("Error getting HEAD commit", r2)
       ELSE IF old.commit \in badTree
            THEN E("Error getting old commit tree", Append(r2, Read("tree", old.commit)))
       ELSE IF HeadCommit \in badTree THEN E("Error getting HEAD tree", r3)
       ELSE Bind(Patch(tree[old.commit], tree[HeadCommit]), LAMBDA patch :
                IF ~patch.ok THEN E("Error getting changes", r3 \o patch.reads)
                ELSE [err |-> "", filePatches |-> patch.filePatches,
                      reads |-> r3 \o patch.reads])

patchToHead(commitsBack) ==
    LET dir == getRepositoryDir(env)
        E(msg, reads) == [err |-> msg, filePatches |-> <<>>, reads |-> reads]
    IN IF ~PlainOpen(dir) THEN E("Error opening repository", OpenRead)
       ELSE IF ~headOk THEN E("Error getting HEAD reference", HeadRead)
       ELSE Bind(getCommitFromHead(commitsBack), LAMBDA old : patchFrom(old))

GitFileChange(path, changeType) == [Path |-> path, ChangeType |-> changeType]

RECURSIVE classify(_)
classify(fps) ==
    IF fps = <<>> THEN <<>>
    ELSE LET fp == Head(fps)
         IN (IF fp.from = "" /\ fp.to # "" THEN <<GitFileChange(fp.to, "Added")>>
             ELSE IF fp.from # "" /\ fp.to = "" THEN <<GitFileChange(fp.from, "Deleted")>>
             ELSE IF fp.from # "" /\ fp.to # "" THEN <<GitFileChange(fp.to, "Modified")>>
             ELSE <<>>)
            \o classify(Tail(fps))

\* the handler's result once the patch p is known
changedFilesOf(a, p) ==
    LET dir == getRepositoryDir(env)
    IN IF p.err # ""
       THEN Result("git-changed-files", a, "", dir, TRUE, p.err, <<>>, p.reads)
       ELSE Result("git-changed-files", a, "", dir, FALSE, "Files changed",
                   classify(p.filePatches), p.reads)

gitChangedFiles(a) ==
    Bind(patchToHead(CommitsBackOf(a)), LAMBDA p : changedFilesOf(a, p))

fileDiffOf(path, a, p) ==
    LET filePath == getString(path)
        dir == getRepositoryDir(env)
        fm == FirstMatch(p.filePatches, filePath)
        fileDiff == IF fm = <<>> THEN <<>> ELSE Chunks(fm[1])
        R(isError, msg, data) ==
            Result("git-file-diff", a, path, dir, isError, msg, data, p.reads)
    IN IF p.err # "" THEN R(TRUE, p.err, <<>>)
       ELSE IF Len(fileDiff) = 0 THEN R(FALSE, "No changes found for file", <<>>)
       ELSE R(FALSE, "diff", fileDiff)

gitFileDiff(path, a) ==
    IF getString(path) = ""
    THEN Result("git-file-diff", a, path, "none", TRUE,
                "Error: file_path parameter is required", <<>>, <<>>)
    ELSE Bind(patchToHead(CommitsBackOf(a)), LAMBDA p : fileDiffOf(path, a, p))

\* ---- git-file-history ----
Entry(kind, c, tag, blob) == [kind |-> kind, c |-> c, tag |-> tag, blob |-> blob]

RECURSIVE ChunkEntries(_)
ChunkEntries(cs) ==
    IF cs = <<>> THEN <<>>
    ELSE <<Entry("chunk", 0, Head(cs).op, Head(cs).blob)>> \o ChunkEntries(Tail(cs))

\* what the callback writes for the file patch that names filePath
DiffEntries(fp) ==
    <<Entry("diff", 0,
            IF fp.from = "" THEN "new file" ELSE IF fp.to = "" THEN "deleted file" ELSE "",
            0)>>
    \o ChunkEntries(Chunks(fp))

\* commitIter.ForEach with the callback of git-file-history: prevCommit is the
\* commit the callback saw last (0 = nil), result the text written so far
RECURSIVE ForEachHistory(_, _, _, _, _, _)
ForEachHistory(walk, i, prevCommit, result, reads, filePath) ==
    IF i > Len(walk.seq)
    THEN [err |-> IF walk.err THEN "Error iterating commits" ELSE "",
          result |-> result, reads |-> reads \o NextReads(walk, i)]
    ELSE LET c == walk.seq[i]
             r0 == Append(result, Entry("commit", c, "", 0))
             rn == reads \o NextReads(walk, i)
             rt == rn \o <<Read("tree", c), Read("tree", prevCommit)>>
         IN IF prevCommit = 0
            THEN ForEachHistory(walk, i + 1, c, r0, rn, filePath)
            ELSE IF c \in badTree
                 THEN [err |-> "Error iterating commits: error getting current tree",
                       result |-> r0, reads |-> Append(rn, Read("tree", c))]
            ELSE IF prevCommit \in badTree
                 THEN [err |-> "Error iterating commits: error getting previous tree",
                       result |-> r0, reads |-> rt]
            ELSE Bind(Patch(tree[c], tree[prevCommit]), LAMBDA patch :
                     IF ~patch.ok
                     THEN [err |-> "Error iterating commits: error getting changes",
                           result |-> r0, reads |-> rt \o patch.reads]
                     ELSE Bind(FirstMatch(patch.filePatches, filePath), LAMBDA fm :
                              ForEachHistory(walk, i + 1, c,
                                             IF fm = <<>> THEN r0
                                             ELSE r0 \o DiffEntries(fm[1]),
                                             rt \o patch.reads, filePath)))

\* the iteration of git-file-history from HEAD
historyFromHead(filePath) ==
    Bind(LogWalk(HeadCommit), LAMBDA walk :
        ForEachHistory(walk, 1, 0, <<>>, Append(HeadRead, Read("commit", HeadCommit)),
                       filePath))

\* a handler that returns the text written so far when the iteration fails
fileHistoryOfKeepsText(path, dir, fe) ==
    LET R(isError, msg, data) ==
            Result("git-file-history", NoArg, path, dir, isError, msg, data, fe.reads)
    IN IF fe.err # "" THEN R(TRUE, fe.err, fe.result)
       ELSE IF Len(fe.result) = 0 THEN R(FALSE, "No history found for file", <<>>)
       ELSE R(FALSE, "history", fe.result)

\* the handler's result once the iteration fe has ended
fileHistoryOf(path, dir, fe) ==
    LET R(isError, msg, data) ==
            Result("git-file-history", NoArg, path, dir, isError, msg, data, fe.reads)
    IN IF fe.err # "" THEN R(TRUE, fe.err, <<>>)
       ELSE IF Len(fe.result) = 0 THEN R(FALSE, "No history found for file", <<>>)
       ELSE R(FALSE, "history", fe.result)

gitFileHistory(path) ==
    LET filePath == getString(path)
        dir == getRepositoryDir(env)
        R(d, isError, msg, data, reads) ==
            Result("git-file-history", NoArg, path, d, isError, msg, data, reads)
    IN IF filePath = ""
       THEN R("none", TRUE, "Error: file_path parameter is required", <<>>, <<>>)
       ELSE IF ~PlainOpen(dir) THEN R(dir, TRUE, "Error opening repository", <<>>, OpenRead)
       ELSE IF ~headOk THEN R(dir, TRUE, "Error getting HEAD reference", <<>>, HeadRead)
       ELSE IF HeadCommit \in missing
            THEN R(dir, TRUE, "Error getting commit history", <<>>,
                   Append(HeadRead, Read("commit", HeadCommit)))
       ELSE Bind(historyFromHead(filePath), LAMBDA fe : fileHistoryOf(path, dir, fe))

\* ---- MCPServer.init and main ----
init ==
    /\ pc = "start"
    /\ workdir' = env.WORKDIR
    /\ pc' = IF env.WORKDIR = "" THEN "exited" ELSE "serving"
    /\ UNCHANGED <<env, parents, tree, headOk, missing, badTree, badBlob, res>>

\* ---- tool invocations served by the running process ----
\* limit is optional; commits_back is declared required
LimitArgs == {NoArg} \cup {Arg(v) : v \in (0 - 1)..(Len(parents) + 1)}
CommitsBackArgs == {Arg(v) : v \in 0..(Len(parents) + 1)}
FilePathArgs == {""} \cup Paths \cup {NoPath}

Serve(r) ==
    /\ pc = "serving"
    /\ res' = r
    /\ UNCHANGED <<pc, env, workdir, parents, tree, headOk, missing, badTree, badBlob>>

CallGitLog == \E a \in LimitArgs : Serve(gitLog(a))

CallGitChangedFiles == \E a \in CommitsBackArgs : Serve(gitChangedFiles(a))

CallGitFileDiff == \E path \in FilePathArgs : \E a \in CommitsBackArgs : Serve(gitFileDiff(path, a))

CallGitFileHistory == \E path \in FilePathArgs : Serve(gitFileHistory(path))

\* getCommitFromHead applied on its own to every distance
CallGetCommitFromHead ==
    \E n \in 0..(Len(parents) + 1) :
        LET r == getCommitFromHead(n)
        IN Serve(Result("getCommitFromHead", Arg(n), "", "none", ~r.ok, r.err,
                        IF r.ok THEN <<r.commit>> ELSE <<>>, r.reads))

\* ---- repositories ----
ParentLists(c) ==
    {<<>>} \cup {<<p>> : p \in 1..(c - 1)}
           \cup {pq \in (1..(c - 1)) \X (1..(c - 1)) : pq[1] # pq[2]}

RECURSIVE Graphs(_)
Graphs(n) ==
    IF n = 0 THEN {<<>>}
    ELSE {Append(g, pl) : g \in Graphs(n - 1), pl \in ParentLists(n)}

\* the commits reachable from the commits of todo through any parent
RECURSIVE ReachableIn(_, _, _)
ReachableIn(g, todo, seen) ==
    IF todo = {} THEN seen
    ELSE LET c == CHOOSE x \in todo : TRUE
             ps == {g[c][i] : i \in 1..Len(g[c])}
         IN ReachableIn(g, (todo \cup ps) \ (seen \cup {c}), seen \cup {c})

\* the graphs all of whose commits are reachable from the newest one (HEAD)
ConnectedGraphs(n) == {g \in Graphs(n) : ReachableIn(g, {n}, {}) = 1..n}

\* blob ids are numbered in the order of their first use
Slots(t) == [i \in 1..(Len(t) * Len(PathSeq)) |->
                t[((i - 1) \div Len(PathSeq)) + 1][PathSeq[((i - 1) % Len(PathSeq)) + 1]]]

Canonical(t) ==
    \A i \in 1..Len(Slots(t)) :
        Slots(t)[i] > 1 => \E j \in 1..(i - 1) : Slots(t)[j] = Slots(t)[i] - 1

Chain(n) == [c \in 1..n |-> IF c = 1 THEN <<>> ELSE <<c - 1>>]

DefaultEnv == [WORKDIR |-> RepoDir, CLIENT_WORKDIR |-> ""]
OneFileTree(b) == [p \in Paths |-> IF p = "a" THEN b ELSE 0]

Started ==
    /\ pc = "start"
    /\ workdir = ""
    /\ res = NoResult

Healthy ==
    /\ headOk = TRUE
    /\ missing = {}
    /\ badTree = {}
    /\ badBlob = {}

\* every history of up to MaxCommits commits with every tree per commit
Init ==
    /\ Started
    /\ Healthy
    /\ env = DefaultEnv
    /\ \E n \in 1..MaxCommits :
        /\ parents \in ConnectedGraphs(n)
        /\ tree \in [1..n -> Trees]
        /\ Canonical(tree)

Next ==
    \/ init
    \/ CallGitLog
    \/ CallGitChangedFiles
    \/ CallGitFileDiff
    \/ CallGitFileHistory

Spec == Init /\ [][Next]_vars

\* every commit graph of up to MaxGraphCommits commits and every linear history
\* of up to MaxChain commits, with at most one unreadable commit object
InitGraph ==
    /\ Started
    /\ env = DefaultEnv
    /\ headOk = TRUE
    /\ badTree = {}
    /\ badBlob = {}
    /\ \/ \E n \in 1..MaxGraphCommits : parents \in Graphs(n)
       \/ \E n \in 1..MaxChain : parents = Chain(n)
    /\ tree = [c \in 1..Len(parents) |-> OneFileTree(1)]
    /\ missing \in {{}} \cup {{c} : c \in 1..Len(parents)}

NextGraph ==
    \/ init
    \/ CallGitLog
    \/ CallGetCommitFromHead

SpecGraph == InitGraph /\ [][NextGraph]_vars

\* every value of the two environment variables, over small healthy histories
InitEnv ==
    /\ Started
    /\ Healthy
    /\ env \in [WORKDIR : Dirs, CLIENT_WORKDIR : Dirs]
    /\ \E n \in 1..2 :
        /\ parents = Chain(n)
        /\ tree \in [1..n -> {OneFileTree(b) : b \in 0..MaxBlob}]

SpecEnv == InitEnv /\ [][Next]_vars

NoFault ==
    /\ Healthy
    /\ env \in {DefaultEnv, [WORKDIR |-> "/other", CLIENT_WORKDIR |-> ""]}

OneFault(f) ==
    /\ env = DefaultEnv
    /\ headOk = (f # "head")
    /\ missing \in (IF f = "commit" THEN {{c} : c \in 1..Len(parents)} ELSE {{}})
    /\ badTree \in (IF f = "tree" THEN {{c} : c \in 1..Len(parents)} ELSE {{}})
    /\ badBlob \in (IF f = "blob" THEN {{b} : b \in 1..MaxBlob} ELSE {{}})

\* histories with at most one fault: a directory that is no repository, an
\* unresolvable HEAD, an unreadable commit, tree or blob; the file either never
\* changes or changes in every commit
InitFault ==
    /\ Started
    /\ \E n \in 1..MaxFaultCommits :
        /\ parents \in ConnectedGraphs(n)
        /\ tree \in {[c \in 1..n |-> OneFileTree(1)],
                     [c \in 1..n |-> OneFileTree(1 + (c % MaxBlob))]}
    /\ (NoFault \/ \E f \in {"head", "commit", "tree", "blob"} : OneFault(f))

SpecFault == InitFault /\ [][Next]_vars

\* ---- vocabulary of the properties ----
\* HEAD, HEAD's first parent, that commit's first parent, ... down to a root
RECURSIVE FirstParentChain(_)
FirstParentChain(c) ==
    IF parents[c] = <<>> THEN <<c>> ELSE <<c>> \o FirstParentChain(parents[c][1])

Reachable(c) == ReachableIn(parents, {c}, {})

\* the tree of the immediate predecessor: the first parent's, or the empty tree
PredTree(c) == IF parents[c] = <<>> THEN EmptyTree ELSE tree[parents[c][1]]

Range(s) == {s[i] : i \in 1..Len(s)}

IsCommitEntry(e) == e.kind = "commit"
CommitsOf(data) ==
    LET es == SelectSeq(data, IsCommitEntry) IN [i \in 1..Len(es) |-> es[i].c]

\* the entries written after the summary at index i and before the next summary
DiffAfter(data, i) ==
    LET later == {j \in (i + 1)..Len(data) : data[j].kind = "commit"}
        stop == IF later = {} THEN Len(data) + 1
                ELSE CHOOSE j \in later : \A k \in later : j <= k
    IN SubSeq(data, i + 1, stop - 1)

\* the diff of one path from content old to content new
ExpectedDiff(path, old, new) ==
    IF old = new THEN <<>>
    ELSE DiffEntries(FilePatch(IF old # 0 THEN path ELSE "",
                               IF new # 0 THEN path ELSE "", old, new))

Faulty(rd) ==
    \/ rd.kind = "dir" /\ ~PlainOpen(res.dir)
    \/ rd.kind = "ref" /\ ~headOk
    \/ rd.kind = "commit" /\ rd.id \in missing
    \/ rd.kind = "tree" /\ rd.id \in badTree
    \/ rd.kind = "blob" /\ rd.id \in badBlob

\* C1: getCommitFromHead(n), n >= 0, returns the commit exactly n first-parent
\* steps from HEAD when the objects on the way are readable; it fails with the
\* root-reached error and no commit when a parentless commit is reached before
\* n steps; it never returns a commit at another distance.
C1_NthFirstParent ==
    res.tool = "getCommitFromHead" =>
        LET n == res.num.val
            chain == FirstParentChain(HeadCommit)
            readable == \A i \in 1..Min(n + 1, Len(chain)) : chain[i] \notin missing
        IN /\ ~res.isError => n < Len(chain) /\ res.data = <<chain[n + 1]>>
           /\ res.isError => res.data = <<>>
           /\ (readable /\ n < Len(chain)) => ~res.isError
           /\ (readable /\ n >= Len(chain)) =>
                  res.isError /\ res.msg = "reached root commit"

\* a merge commit at HEAD whose second-step first-parent ancestor was returned
C1_Witness ==
    /\ res.tool = "getCommitFromHead"
    /\ ~res.isError
    /\ res.num.val = 2
    /\ Len(parents[HeadCommit]) = 2

\* C2: git-changed-files with commits_back = n >= 0 reports the changes between
\* the n-th first-parent ancestor of HEAD and HEAD for that same n; n = 0
\* compares HEAD with itself and yields an empty change set.
C2_SameN ==
    (res.tool = "git-changed-files" /\ res.num.present /\ res.num.val >= 0) =>
        LET n == res.num.val
            chain == FirstParentChain(HeadCommit)
        IN /\ n < Len(chain) =>
                 /\ ~res.isError
                 /\ res.data = classify(FilePatches(tree[chain[n + 1]], tree[HeadCommit]))
           /\ n = 0 => (~res.isError /\ res.data = <<>>)

\* C3: git-log with limit L >= 0 (10 when absent) returns exactly
\* min(L, number of commits reachable from HEAD) summaries of distinct
\* reachable commits, HEAD first, every later one after one of its children;
\* reaching the limit is a success, and a readable history never fails.
C3_LogLimit ==
    (res.tool = "git-log" /\ LimitOf(res.num) >= 0) =>
        LET L == LimitOf(res.num)
            N == Cardinality(Reachable(HeadCommit))
            d == res.data
        IN /\ missing = {} => ~res.isError
           /\ ~res.isError =>
                 /\ Len(d) = Min(L, N)
                 /\ Len(d) > 0 => d[1] = GitCommit(HeadCommit)
                 /\ \A i \in 1..Len(d) : d[i].Hash \in Reachable(HeadCommit)
                 /\ \A i, j \in 1..Len(d) : d[i] = d[j] => i = j
                 /\ \A i \in 2..Len(d) :
                        \E j \in 1..(i - 1) : d[i].Hash \in Range(parents[d[j].Hash])

\* the default limit cut a history of more than ten commits down to ten
C3_Witness ==
    /\ res.tool = "git-log"
    /\ ~res.num.present
    /\ ~res.isError
    /\ Len(parents) > DefaultLimit
    /\ Len(res.data) = DefaultLimit

\* C4: git-file-history lists a commit's summary only if the requested path
\* differs between that commit and its immediate predecessor.
C4_SkipUnchanged ==
    (res.tool = "git-file-history" /\ ~res.isError) =>
        \A c \in Range(CommitsOf(res.data)) :
            BlobAt(tree[c], res.path) # BlobAt(PredTree(c), res.path)

\* C5: in the git-file-history result the diff after a commit's summary is the
\* change that commit made to the path: old side the content at its first
\* parent (the empty tree for a root), new side the content at the commit.
C5_DiffOfCommit ==
    (res.tool = "git-file-history" /\ ~res.isError) =>
        \A i \in 1..Len(res.data) :
            res.data[i].kind = "commit" =>
                DiffAfter(res.data, i) =
                    ExpectedDiff(res.path, BlobAt(PredTree(res.data[i].c), res.path),
                                 BlobAt(tree[res.data[i].c], res.path))

\* C6: git-file-diff answers "no changes" without error for a path present and
\* unchanged between the n-th ancestor and HEAD, and never gives that same
\* answer for a path that exists in neither commit.
C6_Distinguishable ==
    (res.tool = "git-file-diff" /\ res.path # "" /\ res.num.val >= 1
        /\ res.num.val < Len(FirstParentChain(HeadCommit))) =>
        LET old == tree[FirstParentChain(HeadCommit)[res.num.val + 1]]
            new == tree[HeadCommit]
        IN /\ (BlobAt(old, res.path) # 0 /\ BlobAt(old, res.path) = BlobAt(new, res.path)) =>
                  (~res.isError /\ res.msg = "No changes found for file")
           /\ (BlobAt(old, res.path) = 0 /\ BlobAt(new, res.path) = 0) =>
                  ~(~res.isError /\ res.msg = "No changes found for file")

\* C7: after a successful init every invocation opens the WORKDIR value that
\* init validated.
C7_OpensWorkdir ==
    (pc = "serving" /\ res.dir # "none") => res.dir = workdir

\* C8: git-file-history visits exactly HEAD and its first-parent ancestors, in
\* that order; no commit reachable only through a later parent is visited.
C8_FirstParentOnly ==
    (res.tool = "git-file-history" /\ ~res.isError) =>
        CommitsOf(res.data) = FirstParentChain(HeadCommit)

\* C9: git-changed-files reports a path as Added exactly when it is absent at
\* the ancestor and present at HEAD, Deleted exactly when present at the
\* ancestor and absent at HEAD, Modified exactly when present in both with
\* different content; so the ancestor's paths minus the Deleted plus the Added
\* paths are HEAD's paths.
C9_Classification ==
    (res.tool = "git-changed-files" /\ ~res.isError /\ res.num.val >= 1) =>
        LET old == tree[FirstParentChain(HeadCommit)[res.num.val + 1]]
            new == tree[HeadCommit]
            has(p, t) == GitFileChange(p, t) \in Range(res.data)
            pathsOf(t) == {p \in Paths : t[p] # 0}
        IN /\ \A p \in Paths :
                 /\ has(p, "Added") <=> (old[p] = 0 /\ new[p] # 0)
                 /\ has(p, "Deleted") <=> (old[p] # 0 /\ new[p] = 0)
                 /\ has(p, "Modified") <=> (old[p] # 0 /\ new[p] # 0 /\ old[p] # new[p])
           /\ (pathsOf(old) \ {p \in Paths : has(p, "Deleted")})
                  \cup {p \in Paths : has(p, "Added")} = pathsOf(new)

\* C10: in each of the four tools a failed step ends the invocation: the
\* unreadable object is the last thing read, the result is an error carrying
\* no data, and a result without IsError read only readable objects.
C10_FailureTerminal ==
    res.tool \in {"git-log", "git-changed-files", "git-file-diff", "git-file-history"} =>
        /\ \A i \in 1..Len(res.reads) :
               Faulty(res.reads[i]) =>
                   (i = Len(res.reads) /\ res.isError /\ res.data = <<>>)
        /\ res.isError => res.data = <<>>
        /\ res.isError =>
               \/ Len(res.reads) > 0 /\ Faulty(res.reads[Len(res.reads)])
               \/ res.msg \in {"Error: file_path parameter is required",
                               "Error getting old commit: reached root commit"}

\* git-file-history failed on a tree after it had written a commit summary
C10_Witness ==
    /\ res.tool = "git-file-history"
    /\ res.isError
    /\ res.msg = "Error iterating commits: error getting current tree"
    /\ res.data = <<>>

\* C11: git-file-history for a path present in no commit walked from HEAD
\* answers "No history found for file" and lists no commit summary.
C11_NoHistory ==
    (res.tool = "git-file-history" /\ ~res.isError /\ res.path # ""
        /\ \A c \in Reachable(HeadCommit) : BlobAt(tree[c], res.path) = 0) =>
        /\ res.msg = "No history found for file"
        /\ CommitsOf(res.data) = <<>>

====
